---- MODULE Spec2Model ----
(***************************************************************************)
(* The bookmark store of the extension (src/context/bookmark.context.tsx): *)
(* the in-memory bookmark sequence held in a React state cell, the         *)
(* persistent key-value store it is mirrored to, and the asynchronous      *)
(* addBookmark / deleteBookmark / loadBookmarks flows, each cut at its     *)
(* await points.  After it, three components with timers: TodoItem (the    *)
(* delayed delete), UpdateReleaseNotesModal (the countdown of its confirm  *)
(* button) and useBasePetLogic (the position of the pet).                  *)
(***************************************************************************)
EXTENDS Integers, Sequences, FiniteSets, TLC

VARIABLES
    bookmarks,   \* the React state cell `bookmarks` (committed value)
    storage,     \* the persistent store: keys "bookmarks", "deletedBookmarkIds"
    calls,       \* in-flight addBookmark / deleteBookmark calls, by slot
    load,        \* the startup loadBookmarks call
    view,        \* result of the last getCurrentFolderItems call
    nest,        \* step-wise execution of getNestedItems (call stack)
    comp,        \* result of the last compressImageData call made on its own
    ev,          \* history: the last step taken and its input
    hist,        \* history: what the calls so far have done
    todo,        \* one TodoItem: its state cells, its timer, its requests
    modal,       \* one UpdateReleaseNotesModal: props, counter, interval
    pet          \* one useBasePetLogic: position, behaviour, collectibles

\* the state of the bookmark provider and of the components
bookmarkVars == <<bookmarks, storage, calls, load, view, nest, comp, ev, hist>>
uiVars == <<todo, modal, pet>>

vars == <<bookmarks, storage, calls, load, view, nest, comp, ev, hist,
          todo, modal, pet>>

----------------------------------------------------------------------------
(* Bounds of the model *)

\* number of calls that may be suspended at an await at the same time
MaxInFlight == 2
\* number of addBookmark / deleteBookmark / setBookmarks calls in one run
MaxCalls == 4
\* number of external setBookmarks calls in one run
MaxSets == 1
\* cap on the depth of the getNestedItems call stack in the step-wise model
MaxDepth == 6
\* length of the sequences the store starts with, where it starts non-empty
MaxLen == 3
\* number of deleteBookmark calls in one run on a given parentId graph
TreeCalls == 2
\* number of calls in one run of overlapping calls
RaceCalls == 3
\* number of calls in one run around the size ceilings
SizeCalls == 3

----------------------------------------------------------------------------
(* Program constants *)

MAX_BOOKMARK_SIZE == 1572864
TOTAL_LIMIT == 5242880
DECODE_LIMIT == 3145728
COMPRESS_THRESHOLD == 50000

----------------------------------------------------------------------------
(* Data *)

Null == "null"
Ids == {"a", "b", "f"}
Types == {"BOOKMARK", "FOLDER"}
Slots == 1..MaxInFlight

NoImage == [fmt |-> "none", payload |-> 0]

\* a customImage string: a data URI "data:image/<fmt>;base64,<payload>" with
\* a base64 payload of `payload` characters, or (fmt "url") a plain string
\* of `payload` characters without a comma
Image(fmt, n) == [fmt |-> fmt, payload |-> n]

Bookmark(id, type, parentId, pinned, isLocal, img) ==
    [id |-> id, type |-> type, parentId |-> parentId, pinned |-> pinned,
     isLocal |-> isLocal, customImage |-> img]

Range(s) == {s[i] : i \in 1..Len(s)}

IdsOf(bm) == {bm[i].id : i \in 1..Len(bm)}

RECURSIVE Sum(_, _)
Sum(f, S) == IF S = {} THEN 0
             ELSE LET x == CHOOSE y \in S : TRUE IN f[x] + Sum(f, S \ {x})

----------------------------------------------------------------------------
(* The persistent store.  A write takes effect when setToStorage is called *)
(* and a read returns the value at the time getFromStorage is called: the  *)
(* store serves its requests in the order they are made.                   *)

Missing == [kind |-> "missing", val |-> <<>>]
Junk == [kind |-> "junk", val |-> <<>>]
Arr(s) == [kind |-> "array", val |-> s]

\* Array.isArray(value)
IsArrayLoose(v) == v.kind # "missing"

IsArray(v) == v.kind = "array"

\* value || []
OrEmpty(v) == IF v.kind = "missing" THEN <<>> ELSE v.val

SetToStorage(st, key, value) == [st EXCEPT ![key] = Arr(value)]

GetFromStorage(st, key) == st[key]

----------------------------------------------------------------------------
(* Sizes *)

\* length of the part of a customImage string before the payload
PrefixLen(img) ==
    CASE img.fmt = "gif"  -> 22      \* "data:image/gif;base64,"
      [] img.fmt = "png"  -> 22      \* "data:image/png;base64,"
      [] img.fmt = "webp" -> 23      \* "data:image/webp;base64,"
      [] OTHER            -> 0

\* customImage.length
StrLen(img) == PrefixLen(img) + img.payload

\* truthiness of bookmark.customImage (undefined and "" are falsy)
HasImage(b) == b.customImage.fmt # "none" /\ StrLen(b.customImage) > 0

\* imageData.startsWith('data:image')
IsDataImage(img) == img.fmt \in {"gif", "png", "webp"}

\* imageData.startsWith('data:image/gif')
IsGif(img) == img.fmt = "gif"

\* JSON.stringify(bookmark).length for an entry without its customImage:
\* {"id":"a","type":"BOOKMARK","parentId":null,"pinned":false,"isLocal":true}
JsonLenNoImage(b) ==
    1 + 8
    + 8 + (IF b.type = "BOOKMARK" THEN 10 ELSE 8)
    + 12 + (IF b.parentId = Null THEN 4 ELSE 3)
    + 10 + (IF b.pinned THEN 4 ELSE 5)
    + 11 + (IF b.isLocal THEN 4 ELSE 5)
    + 1

\* JSON.stringify(bookmark).length; an undefined customImage is left out
JsonLen(b) ==
    JsonLenNoImage(b)
    + (IF b.customImage.fmt = "none" THEN 0 ELSE 15 + 2 + StrLen(b.customImage))

\* JSON.stringify(list).length
JsonLenList(bm) ==
    IF Len(bm) = 0 THEN 2
    ELSE 2 + (Len(bm) - 1)
           + Sum([i \in 1..Len(bm) |-> JsonLen(bm[i])], 1..Len(bm))

GetBookmarkDataSize(b) ==
    IF HasImage(b)
    THEN LET base64Len == b.customImage.payload
             imageSize == (base64Len * 3 + 3) \div 4
         IN imageSize + JsonLenNoImage(b)
    ELSE JsonLen(b)

\* the ceiling without the allowance for animated images
SizeLimitNoGif(b) == MAX_BOOKMARK_SIZE

SizeLimit(b) ==
    IF HasImage(b) /\ IsGif(b.customImage)
    THEN (3 * MAX_BOOKMARK_SIZE) \div 2
    ELSE MAX_BOOKMARK_SIZE

\* binaryString.length of window.atob(base64) for an unpadded payload
DecodedLen(img) == (img.payload * 3) \div 4

\* What the host does with one image: atob throws; the image fails to load
\* (onerror); it loads and is re-encoded to `len` payload characters
\* (onload); it loads and the canvas or the encoder throws inside the
\* onload callback (onloadThrows).  The promise executor of lines 102-144
\* only makes an Image and assigns its handlers and its src, and does not
\* throw.
CodecOutcomes ==
    {[kind |-> "atobThrows", len |-> 0],
     [kind |-> "onerror", len |-> 0], [kind |-> "onloadThrows", len |-> 0],
     [kind |-> "onload", len |-> 4000], [kind |-> "onload", len |-> 60000]}

\* lines 85-91: the data is returned as it is, nothing is decoded
Skipped(img) ==
    \/ ~IsDataImage(img)
    \/ IsGif(img) /\ StrLen(img) < MAX_BOOKMARK_SIZE

\* line 98: the guard on the decoded length
\* the guard with the limit itself rejected
GuardRejectsAtLimit(img) == DecodedLen(img) >= DECODE_LIMIT

GuardRejects(img) == DecodedLen(img) > DECODE_LIMIT

\* lines 102-144 are reached: the data goes through the image codec
ReachesCodec(img, outcome) ==
    ~Skipped(img) /\ outcome.kind # "atobThrows" /\ ~GuardRejects(img)

\* how the promise compressImageData returns ends: "resolved", "rejected"
\* or "never".  The early returns and the catch of line 145 resolve it; the
\* promise of line 102 resolves in onload and in onerror; an exception in
\* the onload callback is outside the try of line 93 and leaves the
\* promise pending for ever.  No path rejects it.
CompressSettles(img, outcome) ==
    IF ~ReachesCodec(img, outcome) THEN "resolved"
    ELSE IF outcome.kind = "onloadThrows" THEN "never"
    ELSE "resolved"

\* the value compressImageData resolves with
CompressImageData(img, outcome) ==
    IF Skipped(img) THEN img
    ELSE IF outcome.kind = "atobThrows" THEN img
    ELSE IF GuardRejects(img) THEN img
    ELSE IF outcome.kind = "onload"
         THEN Image(IF IsGif(img) THEN "png" ELSE "webp", outcome.len)
    ELSE img

\* line 154: prepareBookmarkForStorage calls compressImageData
Compresses(b) == HasImage(b) /\ StrLen(b.customImage) > COMPRESS_THRESHOLD

\* the await of line 156 never returns
PrepareHangs(b, outcome) ==
    Compresses(b) /\ CompressSettles(b.customImage, outcome) = "never"

\* the catch of lines 159-166 runs: compressImageData rejected
PrepareCatches(b, outcome) ==
    Compresses(b) /\ CompressSettles(b.customImage, outcome) = "rejected"

PrepareBookmarkForStorage(b, outcome) ==
    LET processed == [b EXCEPT !.isLocal = TRUE]
    IN IF ~Compresses(processed) THEN processed
       ELSE IF PrepareCatches(processed, outcome)
       THEN IF processed.type = "BOOKMARK"
            THEN [processed EXCEPT !.customImage = NoImage]
            ELSE processed
       ELSE [processed EXCEPT
                !.customImage = CompressImageData(processed.customImage, outcome)]

\* the toast of line 161
PrepareToast(b, outcome) ==
    IF PrepareCatches(b, outcome) THEN "imageWarning" ELSE "none"

----------------------------------------------------------------------------
(* Reads of the in-memory sequence *)

LocalOfAll(bm) == bm

LocalOf(bm) == SelectSeq(bm, LAMBDA b : b.isLocal)

HasLocal(bm) == \E i \in 1..Len(bm) : bm[i].isLocal

\* the folder filter without its `!bookmark.pinned`
GetCurrentFolderItemsKeepPinned(bm, parentId) ==
    LET pinnedBookmarks == SelectSeq(bm, LAMBDA b : b.pinned)
        currentFolderBookmarks ==
            SelectSeq(bm, LAMBDA b : b.parentId = parentId)
    IN IF parentId = Null
       THEN pinnedBookmarks \o currentFolderBookmarks
       ELSE currentFolderBookmarks

\* the result without its `parentId === null` test
GetCurrentFolderItemsAlwaysPinned(bm, parentId) ==
    SelectSeq(bm, LAMBDA b : b.pinned)
    \o SelectSeq(bm, LAMBDA b : b.parentId = parentId /\ ~b.pinned)

GetCurrentFolderItems(bm, parentId) ==
    LET pinnedBookmarks == SelectSeq(bm, LAMBDA b : b.pinned)
        currentFolderBookmarks ==
            SelectSeq(bm, LAMBDA b : b.parentId = parentId /\ ~b.pinned)
    IN IF parentId = Null
       THEN pinnedBookmarks \o currentFolderBookmarks
       ELSE currentFolderBookmarks

\* the recursion without its visited-set guard
RecursesUnguarded(child, visited) == child.type = "FOLDER"

\* line 219: whether the loop of getNestedItems recurses into `child`
Recurses(child, visited) == child.type = "FOLDER" /\ child.id \notin visited

\* the loop without its recursion: direct children only
NestedOfChildrenFlat(bm, children, visited) ==
    [i \in 1..Len(children) |-> children[i].id]

\* getNestedItems(parentId, visited): the ids below parentId, depth first;
\* every recursive call gets its own copy of the visited set
RECURSIVE GetNestedItems(_, _, _)
RECURSIVE NestedOfChildren(_, _, _)
NestedOfChildren(bm, children, visited) ==
    IF children = <<>> THEN <<>>
    ELSE LET child == Head(children)
         IN <<child.id>>
            \o (IF Recurses(child, visited)
                THEN GetNestedItems(bm, child.id, visited)
                ELSE <<>>)
            \o NestedOfChildren(bm, Tail(children), visited)

GetNestedItems(bm, parentId, visited) ==
    LET v == visited \cup {parentId}
        children == SelectSeq(bm, LAMBDA b : b.parentId = parentId)
    IN NestedOfChildren(bm, children, v)

\* bookmarks.find((b) => b.id === id), for an id that occurs in bm
Find(bm, id) ==
    bm[CHOOSE i \in 1..Len(bm) :
          bm[i].id = id /\ \A j \in 1..(i - 1) : bm[j].id # id]

\* itemsToDelete without the cascade
\* itemsToDelete that takes the nested entries whatever the target's type
ItemsToDeleteAnyType(bm, id) == <<id>> \o GetNestedItems(bm, id, {})

ItemsToDeleteOnlyTarget(bm, id) == <<id>>

\* itemsToDelete of deleteBookmark(id), for an id found in bm
ItemsToDelete(bm, id) ==
    LET bookmarkToDelete == Find(bm, id)
    IN IF bookmarkToDelete.type = "FOLDER"
       THEN <<id>> \o GetNestedItems(bm, id, {})
       ELSE <<id>>

\* the save effect (useEffect on [bookmarks]): runs when a new sequence is
\* committed and writes its local part, unless there is none.  React runs
\* it after every commit, so each step that calls setBookmarks applies it
\* to the store after the step's own writes.
SaveEffect(st, bm) ==
    IF HasLocal(bm) THEN SetToStorage(st, "bookmarks", LocalOf(bm)) ELSE st

\* bookmarks.filter((b) => !itemsToDelete.includes(b.id))
WithoutItems(bm, items) == SelectSeq(bm, LAMBDA b : b.id \notin Range(items))

----------------------------------------------------------------------------
(* State *)

NoEntry == Bookmark(Null, "BOOKMARK", Null, FALSE, FALSE, NoImage)

\* a slot that holds no call
Idle == [op |-> "idle", pc |-> "idle", bm |-> <<>>, arg |-> NoEntry,
         new |-> NoEntry, id |-> Null, items |-> <<>>, list |-> <<>>]

NestIdle == [pc |-> "idle", stack |-> <<>>, ret |-> <<>>, ncalls |-> 0]

\* no compressImageData call was made on its own
NoComp == [input |-> NoImage, outcome |-> "none", settled |-> "none",
           output |-> NoImage, codec |-> FALSE]

\* TodoItem before it is mounted, the modal and the pet before they are
\* used: the values these variables keep in the runs of the bookmark store
TodoIdle == [mounted |-> FALSE, removed |-> FALSE, isDeleting |-> FALSE,
             countdown |-> 5, timer |-> FALSE, removing |-> FALSE,
             req |-> 0, invoked |-> 0, ticks |-> 0, undoneAt |-> -1,
             renders |-> 0]
ModalIdle == [mounted |-> FALSE, isOpen |-> FALSE, isNull |-> TRUE,
              counterValue |-> 0, counter |-> 0, interval |-> FALSE,
              openedNull |-> TRUE, openedWith |-> 0, ticks |-> 0,
              changes |-> 0]
PetIdle == [mounted |-> FALSE,
            dim |-> [width |-> 0, size |-> 0, maxHeight |-> 0, walkSpeed |-> 0,
                     runSpeed |-> 0, climbSpeed2 |-> 0],
            x |-> 30, y2 |-> 0, direction |-> 1, action |-> "idle",
            behaviorState |-> "RESTING", targetX |-> -1,
            isMovingToTarget |-> FALSE, collectibles |-> <<>>,
            chaseTimeout |-> FALSE, resumeTimeout |-> "none",
            clicks |-> 0, via |-> "mount"]

Event(op, slot, id, toast, arg) ==
    [op |-> op, slot |-> slot, id |-> id, toast |-> toast, arg |-> arg]

InFlight == {s \in Slots : calls[s].op # "idle"}

\* the slot a new call is put in
FreeSlot(s) ==
    /\ calls[s].op = "idle"
    /\ \A t \in Slots : t < s => calls[t].op # "idle"

\* ids the caller may give a new entry: ids are unique
FreshIds ==
    Ids \ (IdsOf(bookmarks)
           \cup {calls[s].arg.id : s \in {t \in Slots : calls[t].op = "add"}})

Started(isDelete) ==
    [hist EXCEPT
        !.n = @ + 1,
        !.overlap = @ \/ InFlight # {},
        !.delOverlap = @ \/ (isDelete /\ \E s \in Slots : calls[s].op = "delete")]

InitWith(bm0, st0, loadPc) ==
    /\ bookmarks = bm0
    /\ storage = st0
    /\ calls = [s \in Slots |-> Idle]
    /\ load = [pc |-> loadPc, stored |-> GetFromStorage(st0, "bookmarks")]
    /\ view = [parentId |-> Null, items |-> <<>>]
    /\ nest = NestIdle
    /\ comp = NoComp
    /\ todo = TodoIdle
    /\ modal = ModalIdle
    /\ pet = PetIdle
    /\ ev = [op |-> "init", slot |-> 0, id |-> Null, toast |-> "none",
             arg |-> NoEntry]
    /\ hist = [n |-> 0, sets |-> 0, added |-> <<>>, removed |-> {},
               overlap |-> FALSE, delOverlap |-> FALSE]

EmptyStore == [bookmarks |-> Missing, deletedBookmarkIds |-> Missing]

\* the provider has just mounted on an empty store
Init == InitWith(<<>>, EmptyStore, "pending")

----------------------------------------------------------------------------
(* loadBookmarks: the mount effect *)

LoadResume ==
    /\ load.pc = "pending"
    /\ load' = [load EXCEPT !.pc = "done"]
    /\ IF IsArray(load.stored)
       THEN /\ bookmarks' = load.stored.val
            /\ storage' = SaveEffect(storage, load.stored.val)
       ELSE UNCHANGED <<bookmarks, storage>>
    /\ ev' = Event("loadDone", 0, Null, "none", NoEntry)
    /\ UNCHANGED <<calls, view, nest, hist, comp, uiVars>>

(* setBookmarks called by a consumer of the context *)
SetBookmarks(list) ==
    /\ hist.sets < MaxSets
    /\ bookmarks' = list
    /\ storage' = SaveEffect(storage, list)
    /\ hist' = [hist EXCEPT !.n = @ + 1, !.sets = @ + 1]
    /\ ev' = Event("set", 0, Null, "none", NoEntry)
    /\ UNCHANGED <<calls, load, view, nest, comp, uiVars>>

----------------------------------------------------------------------------
(* addBookmark *)

\* lines 173-186: the per-entry size check, then the call suspends at
\* `await prepareBookmarkForStorage(bookmark)`; `bookmarks` is the value
\* the closure was created with
AddCall(b) ==
    /\ b.id \in FreshIds
    /\ \E s \in Slots :
         /\ FreeSlot(s)
         /\ hist' = Started(FALSE)
         /\ IF GetBookmarkDataSize(b) > SizeLimit(b)
            THEN /\ ev' = Event("addRejected", s, b.id, "tooLarge", b)
                 /\ UNCHANGED calls
            ELSE /\ ev' = Event("addSuspended", s, b.id, "none", b)
                 /\ calls' = [calls EXCEPT
                        ![s] = [Idle EXCEPT !.op = "add", !.pc = "prepare",
                                           !.bm = bookmarks, !.arg = b,
                                           !.id = b.id]]
    /\ UNCHANGED <<bookmarks, storage, load, view, nest, comp, uiVars>>

\* addBookmark that writes the local entries before the aggregate check
AddResumeSaveFirst(s, outcome) ==
    /\ calls[s].op = "add"
    /\ calls[s].pc = "prepare"
    /\ ~PrepareHangs(calls[s].arg, outcome)
    /\ LET newBookmark == PrepareBookmarkForStorage(calls[s].arg, outcome)
           updatedBookmarks == Append(calls[s].bm, newBookmark)
           warning == PrepareToast(calls[s].arg, outcome)
           saved == SetToStorage(storage, "bookmarks", LocalOf(updatedBookmarks))
       IN IF JsonLenList(LocalOf(updatedBookmarks)) > TOTAL_LIMIT
          THEN /\ ev' = Event("addAggregateRejected", s, calls[s].id,
                            IF warning = "none" THEN "totalTooLarge"
                            ELSE "imageWarning,totalTooLarge", calls[s].arg)
               /\ calls' = [calls EXCEPT ![s] = Idle]
               /\ storage' = saved
               /\ UNCHANGED bookmarks
          ELSE /\ ev' = Event("addCommitted", s, calls[s].id, warning, calls[s].arg)
               /\ bookmarks' = updatedBookmarks
               /\ storage' = SaveEffect(saved, updatedBookmarks)
               /\ calls' = [calls EXCEPT ![s].pc = "persist",
                                         ![s].new = newBookmark]
    /\ UNCHANGED <<load, view, nest, hist, comp, uiVars>>

\* lines 186-204: prepareBookmarkForStorage resolves; the aggregate check;
\* setBookmarks and the write of the local entries
\* addBookmark that calls setBookmarks before the aggregate check and does
\* not revert when the check fails
AddResumeAppendFirst(s, outcome) ==
    /\ calls[s].op = "add"
    /\ calls[s].pc = "prepare"
    /\ ~PrepareHangs(calls[s].arg, outcome)
    /\ LET newBookmark == PrepareBookmarkForStorage(calls[s].arg, outcome)
           updatedBookmarks == Append(calls[s].bm, newBookmark)
           warning == PrepareToast(calls[s].arg, outcome)
       IN /\ bookmarks' = updatedBookmarks
          /\ IF JsonLenList(LocalOf(updatedBookmarks)) > TOTAL_LIMIT
             THEN /\ ev' = Event("addAggregateRejected", s, calls[s].id,
                               IF warning = "none" THEN "totalTooLarge"
                               ELSE "imageWarning,totalTooLarge", calls[s].arg)
                  /\ calls' = [calls EXCEPT ![s] = Idle]
                  /\ storage' = SaveEffect(storage, updatedBookmarks)
             ELSE /\ ev' = Event("addCommitted", s, calls[s].id, warning,
                               calls[s].arg)
                  /\ storage' = SaveEffect(
                         SetToStorage(storage, "bookmarks",
                                      LocalOf(updatedBookmarks)),
                         updatedBookmarks)
                  /\ calls' = [calls EXCEPT ![s].pc = "persist",
                                            ![s].new = newBookmark]
    /\ UNCHANGED <<load, view, nest, hist, comp, uiVars>>

AddResume(s, outcome) ==
    /\ calls[s].op = "add"
    /\ calls[s].pc = "prepare"
    /\ ~PrepareHangs(calls[s].arg, outcome)
    /\ LET newBookmark == PrepareBookmarkForStorage(calls[s].arg, outcome)
           updatedBookmarks == Append(calls[s].bm, newBookmark)
           warning == PrepareToast(calls[s].arg, outcome)
       IN IF JsonLenList(LocalOf(updatedBookmarks)) > TOTAL_LIMIT
          THEN /\ ev' = Event("addAggregateRejected", s, calls[s].id,
                            IF warning = "none" THEN "totalTooLarge"
                            ELSE "imageWarning,totalTooLarge", calls[s].arg)
               /\ calls' = [calls EXCEPT ![s] = Idle]
               /\ UNCHANGED <<bookmarks, storage>>
          ELSE /\ ev' = Event("addCommitted", s, calls[s].id, warning, calls[s].arg)
               /\ bookmarks' = updatedBookmarks
               /\ storage' = SaveEffect(
                      SetToStorage(storage, "bookmarks", LocalOf(updatedBookmarks)),
                      updatedBookmarks)
               /\ calls' = [calls EXCEPT ![s].pc = "persist",
                                         ![s].new = newBookmark]
    /\ UNCHANGED <<load, view, nest, hist, comp, uiVars>>

\* line 156: the image loads and the onload callback throws; nothing
\* settles the promise the call awaits, and the call stays suspended
AddHang(s, outcome) ==
    /\ calls[s].op = "add"
    /\ calls[s].pc = "prepare"
    /\ PrepareHangs(calls[s].arg, outcome)
    /\ calls' = [calls EXCEPT ![s].pc = "hung"]
    /\ ev' = Event("addHung", s, calls[s].id, "none", calls[s].arg)
    /\ UNCHANGED <<bookmarks, storage, load, view, nest, comp, hist, uiVars>>

\* line 204: `await setToStorage(...)` returns and the call ends
AddFinish(s) ==
    /\ calls[s].op = "add"
    /\ calls[s].pc = "persist"
    /\ calls' = [calls EXCEPT ![s] = Idle]
    /\ hist' = [hist EXCEPT !.added = Append(@, calls[s].new)]
    /\ ev' = Event("addDone", s, calls[s].id, "none", calls[s].arg)
    /\ UNCHANGED <<bookmarks, storage, load, view, nest, comp, uiVars>>

----------------------------------------------------------------------------
(* deleteBookmark *)

\* deleteBookmark without the early return of line 232
DeleteCallNoReturn(id) ==
    /\ \E s \in Slots :
         /\ FreeSlot(s)
         /\ LET itemsToDelete == IF id \in IdsOf(bookmarks)
                                 THEN ItemsToDelete(bookmarks, id)
                                 ELSE <<id>>
                updatedBookmarks == WithoutItems(bookmarks, itemsToDelete)
            IN /\ ev' = Event(IF id \in IdsOf(bookmarks) THEN "deleteCommitted"
                              ELSE "deleteNotFound", s, id, "none", NoEntry)
               /\ bookmarks' = updatedBookmarks
               /\ storage' = SaveEffect(
                      SetToStorage(storage, "bookmarks", LocalOf(updatedBookmarks)),
                      updatedBookmarks)
               /\ calls' = [calls EXCEPT
                      ![s] = [Idle EXCEPT !.op = "delete", !.pc = "ledgerGet",
                                         !.bm = bookmarks, !.id = id,
                                         !.items = itemsToDelete]]
    /\ hist' = [Started(TRUE) EXCEPT
                   !.removed = @ \cup (IdsOf(bookmarks) \ IdsOf(bookmarks'))]
    /\ UNCHANGED <<load, view, nest, comp, uiVars>>

\* lines 231-245: up to the first await
DeleteCall(id) ==
    /\ \E s \in Slots :
         /\ FreeSlot(s)
         /\ IF id \notin IdsOf(bookmarks)
            THEN /\ ev' = Event("deleteNotFound", s, id, "none", NoEntry)
                 /\ UNCHANGED <<bookmarks, storage, calls>>
            ELSE LET itemsToDelete == ItemsToDelete(bookmarks, id)
                     updatedBookmarks == WithoutItems(bookmarks, itemsToDelete)
                 IN /\ ev' = Event("deleteCommitted", s, id, "none", NoEntry)
                    /\ bookmarks' = updatedBookmarks
                    /\ storage' = SaveEffect(
                           SetToStorage(storage, "bookmarks",
                                        LocalOf(updatedBookmarks)),
                           updatedBookmarks)
                    /\ calls' = [calls EXCEPT
                           ![s] = [Idle EXCEPT !.op = "delete", !.pc = "ledgerGet",
                                              !.bm = bookmarks, !.id = id,
                                              !.items = itemsToDelete]]
    /\ hist' = [Started(TRUE) EXCEPT
                   !.removed = @ \cup (IdsOf(bookmarks) \ IdsOf(bookmarks'))]
    /\ UNCHANGED <<load, view, nest, comp, uiVars>>

\* deleteBookmark that starts its list afresh instead of reading the ledger
DeleteGetFresh(s) ==
    /\ calls[s].op = "delete"
    /\ calls[s].pc = "ledgerGet"
    /\ calls' = [calls EXCEPT ![s].pc = "ledgerPut", ![s].list = <<>>]
    /\ ev' = Event("ledgerRead", s, calls[s].id, "none", NoEntry)
    /\ UNCHANGED <<bookmarks, storage, load, view, nest, hist, comp, uiVars>>

\* line 247: getFromStorage('deletedBookmarkIds') || []
DeleteGet(s) ==
    /\ calls[s].op = "delete"
    /\ calls[s].pc = "ledgerGet"
    /\ calls' = [calls EXCEPT
           ![s].pc = "ledgerPut",
           ![s].list = OrEmpty(GetFromStorage(storage, "deletedBookmarkIds"))]
    /\ ev' = Event("ledgerRead", s, calls[s].id, "none", NoEntry)
    /\ UNCHANGED <<bookmarks, storage, load, view, nest, hist, comp, uiVars>>

\* lines 248-249: push and write back
DeletePut(s) ==
    /\ calls[s].op = "delete"
    /\ calls[s].pc = "ledgerPut"
    /\ storage' = SetToStorage(storage, "deletedBookmarkIds",
                               calls[s].list \o calls[s].items)
    /\ calls' = [calls EXCEPT ![s].pc = "finish"]
    /\ ev' = Event("ledgerWritten", s, calls[s].id, "none", NoEntry)
    /\ UNCHANGED <<bookmarks, load, view, nest, hist, comp, uiVars>>

\* line 249: `await setToStorage(...)` returns and the call ends
DeleteFinish(s) ==
    /\ calls[s].op = "delete"
    /\ calls[s].pc = "finish"
    /\ calls' = [calls EXCEPT ![s] = Idle]
    /\ ev' = Event("deleteDone", s, calls[s].id, "none", NoEntry)
    /\ UNCHANGED <<bookmarks, storage, load, view, nest, hist, comp, uiVars>>

----------------------------------------------------------------------------
(* The store with entries that carry no image: hierarchy and interleaving *)

AddInputs ==
    {Bookmark(id, type, parentId, FALSE, isLocal, NoImage) :
        id \in Ids, type \in Types, parentId \in {Null, "f", "a"},
        isLocal \in BOOLEAN}

\* what a consumer hands to setBookmarks: entries of the browser's own
\* bookmark tree, which are not local
SetInputs ==
    {<<Bookmark("f", "FOLDER", Null, FALSE, FALSE, NoImage),
       Bookmark("b", "BOOKMARK", "f", FALSE, FALSE, NoImage)>>,
     <<Bookmark("f", "FOLDER", Null, FALSE, FALSE, NoImage),
       Bookmark("a", "FOLDER", "f", FALSE, TRUE, NoImage)>>}

\* a new call may start: the startup load has resolved, fewer than `most`
\* calls were made and fewer than `open` are suspended at an await
MayStart(most, open) ==
    /\ load.pc = "done"
    /\ hist.n < most
    /\ Cardinality(InFlight) < open

\* calls that do not overlap: a call starts when no other is in flight
Next ==
    \/ LoadResume
    \/ MayStart(MaxCalls, 1) /\ \E l \in SetInputs : SetBookmarks(l)
    \/ MayStart(MaxCalls, 1) /\ \E b \in AddInputs : AddCall(b)
    \/ \E s \in Slots, o \in CodecOutcomes : AddResume(s, o)
    \/ \E s \in Slots : AddFinish(s)
    \/ MayStart(MaxCalls, 1) /\ \E id \in Ids : DeleteCall(id)
    \/ \E s \in Slots : DeleteGet(s)
    \/ \E s \in Slots : DeletePut(s)
    \/ \E s \in Slots : DeleteFinish(s)

Spec == Init /\ [][Next]_vars

----------------------------------------------------------------------------
(* getCurrentFolderItems, applied to the sequences the store can hold *)

\* sequences of at most n entries of E with pairwise distinct ids
SeqsOver(E, n) ==
    {s \in UNION {[1..k -> E] : k \in 0..n} :
        \A i, j \in 1..Len(s) : i # j => s[i].id # s[j].id}

\* the store as it is once `bm`, a sequence of local entries, was saved
StoreOf(bm) ==
    [bookmarks |-> IF HasLocal(bm) THEN Arr(LocalOf(bm)) ELSE Missing,
     deletedBookmarkIds |-> Missing]

ViewCall(parentId) ==
    /\ view' = [parentId |-> parentId,
                items |-> GetCurrentFolderItems(bookmarks, parentId)]
    /\ ev' = Event("view", 0, parentId, "none", NoEntry)
    /\ UNCHANGED <<bookmarks, storage, calls, load, nest, hist, comp, uiVars>>

ViewEntries ==
    {Bookmark(id, type, parentId, pinned, TRUE, NoImage) :
        id \in Ids, type \in Types, parentId \in {Null, "f"}, pinned \in BOOLEAN}

InitView ==
    \E bm \in SeqsOver(ViewEntries, MaxLen) :
        InitWith(bm, StoreOf(bm), "done")

NextView == \E p \in {Null} \cup Ids : ViewCall(p)

SpecView == InitView /\ [][NextView]_vars

----------------------------------------------------------------------------
(* deleteBookmark on every parentId graph, cycles included *)

TreeEntries ==
    {Bookmark(id, type, parentId, FALSE, TRUE, NoImage) :
        id \in Ids, type \in Types, parentId \in {Null} \cup Ids}

InitTree ==
    \E bm \in SeqsOver(TreeEntries, MaxLen) : InitWith(bm, StoreOf(bm), "done")

NextTree ==
    \/ MayStart(TreeCalls, 1) /\ \E id \in Ids : DeleteCall(id)
    \/ \E s \in Slots : DeleteGet(s)
    \/ \E s \in Slots : DeletePut(s)
    \/ \E s \in Slots : DeleteFinish(s)

SpecTree == InitTree /\ [][NextTree]_vars

----------------------------------------------------------------------------
(* Calls that overlap: a call may start while another is at an await *)

RaceInputs ==
    {Bookmark(id, "BOOKMARK", Null, FALSE, FALSE, NoImage) : id \in {"a", "b"}}

NextRace ==
    \/ LoadResume
    \/ MayStart(RaceCalls, MaxInFlight) /\ \E b \in RaceInputs : AddCall(b)
    \/ \E s \in Slots, o \in CodecOutcomes : AddResume(s, o)
    \/ \E s \in Slots : AddFinish(s)
    \/ MayStart(RaceCalls, MaxInFlight) /\ \E id \in {"a", "b"} : DeleteCall(id)
    \/ \E s \in Slots : DeleteGet(s)
    \/ \E s \in Slots : DeletePut(s)
    \/ \E s \in Slots : DeleteFinish(s)

SpecRace == Init /\ [][NextRace]_vars

----------------------------------------------------------------------------
(* getNestedItems step by step: one frame per call on the stack *)

Frame(bm, parentId, visited) ==
    [parentId |-> parentId,
     visited |-> visited \cup {parentId},
     children |-> SelectSeq(bm, LAMBDA b : b.parentId = parentId),
     result |-> <<>>]

\* line 237: deleteBookmark(id) on a FOLDER calls getNestedItems(id)
NestCall(id) ==
    /\ nest.pc = "idle"
    /\ id \in IdsOf(bookmarks)
    /\ Find(bookmarks, id).type = "FOLDER"
    /\ nest' = [pc |-> "run", stack |-> <<Frame(bookmarks, id, {})>>,
                ret |-> <<>>, ncalls |-> 1]
    /\ ev' = Event("nestCall", 0, id, "none", NoEntry)
    /\ UNCHANGED <<bookmarks, storage, calls, load, view, hist, comp, uiVars>>

\* lines 216-225: one turn of the loop of the innermost call
NestLoop ==
    /\ nest.pc = "run"
    /\ LET d == Len(nest.stack)
           top == nest.stack[d]
       IN /\ top.children # <<>>
          /\ LET child == Head(top.children)
                 pushed == [top EXCEPT !.children = Tail(@),
                                       !.result = Append(@, child.id)]
             IN IF Recurses(child, top.visited)
                THEN /\ d < MaxDepth
                     /\ nest' = [nest EXCEPT
                            !.stack = Append([@ EXCEPT ![d] = pushed],
                                             Frame(bookmarks, child.id, top.visited)),
                            !.ncalls = @ + 1]
                ELSE nest' = [nest EXCEPT !.stack[d] = pushed]
    /\ ev' = Event("nestLoop", 0, ev.id, "none", NoEntry)
    /\ UNCHANGED <<bookmarks, storage, calls, load, view, hist, comp, uiVars>>

\* line 227 and lines 220-223: the innermost call returns its result, which
\* its caller appends to its own
NestReturn ==
    /\ nest.pc = "run"
    /\ LET d == Len(nest.stack)
           top == nest.stack[d]
       IN /\ top.children = <<>>
          /\ IF d = 1
             THEN nest' = [nest EXCEPT !.pc = "done", !.stack = <<>>,
                                       !.ret = top.result]
             ELSE nest' = [nest EXCEPT
                      !.stack = [SubSeq(@, 1, d - 1) EXCEPT
                                    ![d - 1].result = @ \o top.result]]
    /\ ev' = Event("nestReturn", 0, ev.id, "none", NoEntry)
    /\ UNCHANGED <<bookmarks, storage, calls, load, view, hist, comp, uiVars>>

NextNest ==
    \/ \E id \in Ids : NestCall(id)
    \/ NestLoop
    \/ NestReturn

\* a call that was started keeps running: the recursion is synchronous code
SpecNest == InitTree /\ [][NextNest]_vars /\ WF_vars(NestLoop \/ NestReturn)

----------------------------------------------------------------------------
(* The size checks: entries that carry images, around the ceilings *)

\* JSON length of a root BOOKMARK entry as the caller passes it
BareLen == JsonLenNoImage(Bookmark("a", "BOOKMARK", Null, FALSE, FALSE, NoImage))

\* the payload length that puts such an entry's footprint at `size`
PayloadAt(size) == ((size - BareLen) * 4) \div 3

SizePayloads ==
    {40000, 60000,
     PayloadAt(MAX_BOOKMARK_SIZE), PayloadAt(MAX_BOOKMARK_SIZE) + 4,
     PayloadAt((3 * MAX_BOOKMARK_SIZE) \div 2),
     PayloadAt((3 * MAX_BOOKMARK_SIZE) \div 2) + 4}

SizeInputs ==
    {Bookmark(id, type, Null, FALSE, FALSE, img) :
        id \in {"a", "b"}, type \in Types,
        img \in {NoImage} \cup {Image(fmt, n) : fmt \in {"gif", "png"},
                                               n \in SizePayloads}}

NextSize ==
    \/ LoadResume
    \/ MayStart(SizeCalls, 1) /\ \E b \in SizeInputs : AddCall(b)
    \/ \E s \in Slots, o \in CodecOutcomes : AddResume(s, o)
    \/ \E s \in Slots, o \in CodecOutcomes : AddHang(s, o)
    \/ \E s \in Slots : AddFinish(s)
    \/ MayStart(SizeCalls, 1) /\ \E id \in {"a", "b"} : DeleteCall(id)
    \/ \E s \in Slots : DeleteGet(s)
    \/ \E s \in Slots : DeletePut(s)
    \/ \E s \in Slots : DeleteFinish(s)

SpecSize == Init /\ [][NextSize]_vars

----------------------------------------------------------------------------
(* Vocabulary of the properties *)

Ledger == OrEmpty(storage.deletedBookmarkIds)

\* parentId of the entry `id`, Null when there is no such entry
ParentOf(bm, id) == IF id \in IdsOf(bm) THEN Find(bm, id).parentId ELSE Null

\* the entry reached from `id` by following parentId links k times
RECURSIVE Up(_, _, _)
Up(bm, id, k) == IF k = 0 THEN id ELSE ParentOf(bm, Up(bm, id, k - 1))

\* x reaches F by following parentId links one or more times
ReachesAny(bm, x, F) == \E k \in 1..Len(bm) : Up(bm, x, k) = F

\* x reaches F by following parentId links, every entry strictly between
\* them being a FOLDER
ReachesThroughFolders(bm, x, F) ==
    \E k \in 1..Len(bm) :
        /\ Up(bm, x, k) = F
        /\ \A j \in 1..(k - 1) :
              /\ Up(bm, x, j) \in IdsOf(bm)
              /\ Find(bm, Up(bm, x, j)).type = "FOLDER"

FolderDescendants(bm, F) == {x \in IdsOf(bm) : ReachesThroughFolders(bm, x, F)}

\* what deleteBookmark(id) is to remove from bm
Doomed(bm, id) ==
    IF Find(bm, id).type = "FOLDER" THEN {id} \cup FolderDescendants(bm, id)
    ELSE {id}

\* the last step committed deleteBookmark(ev.id) of a FOLDER; the call's
\* closure still holds the sequence it was applied to
DeletedFolder ==
    /\ ev.op = "deleteCommitted"
    /\ Find(calls[ev.slot].bm, ev.id).type = "FOLDER"

----------------------------------------------------------------------------
(* C1 *)

----------------------------------------------------------------------------
(* C2 *)

\* the run so far: calls of addBookmark, none overlapping another, all
\* completed, then one deleteBookmark of a FOLDER among them, completed
AddsThenFolderDelete ==
    /\ ev.op = "deleteDone"
    /\ hist.sets = 0
    /\ ~hist.overlap
    /\ hist.n = Len(hist.added) + 1
    /\ ev.id \in IdsOf(hist.added)
    /\ Find(hist.added, ev.id).type = "FOLDER"

----------------------------------------------------------------------------
(* C3 *)

\* C3: getCurrentFolderItems(null) returns all pinned entries, then all
\* non-pinned root entries: every pinned entry comes before every
\* non-pinned one, nothing non-pinned and non-root is returned, nothing is
\* returned twice.
C3_RootListing ==
    (ev.op = "view" /\ view.parentId = Null) =>
        LET it == view.items IN
        /\ \A i, j \in 1..Len(it) : (it[i].pinned /\ ~it[j].pinned) => i < j
        /\ \A b \in Range(bookmarks) :
              (b.pinned \/ b.parentId = Null) => b \in Range(it)
        /\ \A i \in 1..Len(it) :
              /\ it[i] \in Range(bookmarks)
              /\ it[i].pinned \/ it[i].parentId = Null
        /\ \A i, j \in 1..Len(it) : i # j => it[i] # it[j]

\* the root listing of a sequence in which a pinned entry inside a folder
\* comes after a non-pinned root entry, and one entry is left out
C3_Witness ==
    /\ ev.op = "view"
    /\ view.parentId = Null
    /\ \E i, j \in 1..Len(bookmarks) :
          /\ i < j
          /\ ~bookmarks[i].pinned /\ bookmarks[i].parentId = Null
          /\ bookmarks[j].pinned /\ bookmarks[j].parentId # Null
    /\ Len(view.items) = 2
    /\ Len(bookmarks) = 3

----------------------------------------------------------------------------
(* C4 *)

\* position of an entry in a sequence without repetitions
Pos(bm, b) == CHOOSE i \in 1..Len(bm) : bm[i] = b

ListsFolder(it, bm, p) ==
    /\ Range(it) = {b \in Range(bm) : b.parentId = p /\ ~b.pinned}
    /\ \A i, j \in 1..Len(it) : i < j => Pos(bm, it[i]) < Pos(bm, it[j])

\* C4: for a non-null parentId p, getCurrentFolderItems(p) returns exactly
\* the non-pinned entries with parentId p, in the order of the in-memory
\* sequence, and changes neither that sequence nor the persistent store.
C4_FolderListing ==
    /\ []((ev.op = "view" /\ view.parentId # Null)
            => ListsFolder(view.items, bookmarks, view.parentId))
    /\ [][\A p \in Ids : ViewCall(p) => UNCHANGED <<bookmarks, storage>>]_vars

\* the listing of a folder that holds two non-pinned entries and a pinned one
C4_Witness ==
    /\ ev.op = "view"
    /\ view.parentId # Null
    /\ Len(view.items) = 2
    /\ \E b \in Range(bookmarks) : b.parentId = view.parentId /\ b.pinned

----------------------------------------------------------------------------
(* C5 *)

FolderCount == Cardinality({b \in Range(bookmarks) : b.type = "FOLDER"})

\* C5: on every parentId graph, cyclic ones included, getNestedItems makes
\* finitely many recursive calls (at most one per FOLDER entry, the stack
\* never deeper than that) and the call that deleteBookmark makes returns.
C5_NestedTerminates ==
    /\ [](nest.ncalls <= FolderCount /\ Len(nest.stack) <= FolderCount)
    /\ (nest.pc = "run") ~> (nest.pc = "done")

\* getNestedItems returned on a folder that is its own ancestor, after
\* recursing into another folder of the cycle
C5_Witness ==
    /\ nest.pc = "done"
    /\ ReachesAny(bookmarks, ev.id, ev.id)
    /\ nest.ncalls >= 2
    /\ ev.id \in Range(nest.ret)

----------------------------------------------------------------------------
(* C6 *)

\* the per-entry ceiling of an entry: 1.5 MiB, 1.5 times that for a GIF
Ceiling(b) == IF b.customImage.fmt = "gif" THEN 2359296 ELSE 1572864

\* the call in slot s, resumed with codec outcome o, fails the aggregate check
AggregateExceeded(s, o) ==
    JsonLenList(LocalOf(Append(calls[s].bm,
        PrepareBookmarkForStorage(calls[s].arg, o)))) > 5242880

\* C6: an addBookmark call that validation rejects (entry over its ceiling,
\* or local entries over 5 MiB in all) writes nothing to the store: no step
\* of the call changes "bookmarks" or "deletedBookmarkIds".
C6_RejectedAddWritesNothing ==
    [][/\ \A b \in SizeInputs :
             (b = ev'.arg /\ AddCall(b)) => storage' = storage
       /\ \A s \in Slots, o \in CodecOutcomes :
             (AddResume(s, o) /\ AggregateExceeded(s, o)) => storage' = storage
      ]_vars

\* an add was rejected by the aggregate check while the store held entries
C6_Witness ==
    /\ ev.op = "addAggregateRejected"
    /\ IsArray(storage.bookmarks)
    /\ Len(storage.bookmarks.val) >= 1
    /\ ev.id \notin IdsOf(bookmarks)

----------------------------------------------------------------------------
(* C7 *)

AddEvents == {"addRejected", "addSuspended", "addAggregateRejected", "addCommitted"}

\* footprint above the base ceiling and at most 1.5 times it
InExtension(b) ==
    /\ GetBookmarkDataSize(b) > 1572864
    /\ GetBookmarkDataSize(b) <= 2359296

\* the per-entry check, for footprints between the two ceilings and at a
\* ceiling: a GIF passes, anything else of that footprint is rejected, and
\* a footprint equal to the ceiling passes
PerEntryCheck ==
    ev.op \in AddEvents =>
        /\ (InExtension(ev.arg) /\ ev.arg.customImage.fmt = "gif")
              => ev.op # "addRejected"
        /\ (InExtension(ev.arg) /\ ev.arg.customImage.fmt # "gif")
              => ev.op = "addRejected"
        /\ GetBookmarkDataSize(ev.arg) = Ceiling(ev.arg) => ev.op # "addRejected"

----------------------------------------------------------------------------
(* C8 *)

\* C8: deleteBookmark(id) with an id that no entry has changes neither the
\* in-memory sequence nor the store, starts nothing and reports no error.
C8_DeleteUnknownIsNoOp ==
    [][\A id \in Ids :
          (DeleteCall(id) /\ id \notin IdsOf(bookmarks))
              => (UNCHANGED <<bookmarks, storage, calls>> /\ ev'.toast = "none")
      ]_vars

\* an id deleted before was deleted again, on a store that is not empty
C8_Witness ==
    /\ ev.op = "deleteNotFound"
    /\ ev.id \in Range(Ledger)
    /\ bookmarks # <<>>
    /\ IsArray(storage.bookmarks)

----------------------------------------------------------------------------
(* C9 *)

\* C9: whatever the interleaving of addBookmark and deleteBookmark calls,
\* once all have returned the in-memory sequence holds every entry whose
\* add completed and that no delete removed.
C9_NoLostUpdate ==
    InFlight = {} =>
        \A i \in 1..Len(hist.added) :
            hist.added[i].id \notin hist.removed
                => hist.added[i] \in Range(bookmarks)

----------------------------------------------------------------------------
(* C10 *)

\* C10: the "deletedBookmarkIds" ledger is append-only under deletes that
\* do not overlap: each delete that finds its target writes the old ledger
\* followed by the ids of the target and of the entries nested in it, local
\* or not, and every id a delete removed is in the ledger afterwards.
C10_LedgerAppendOnly ==
    /\ []((~hist.delOverlap /\ \A s \in Slots : calls[s].op # "delete")
            => hist.removed \subseteq Range(Ledger))
    /\ [][\A s \in Slots :
             (DeletePut(s) /\ ~hist.delOverlap) =>
                 LET old == Ledger
                     new == OrEmpty(storage'.deletedBookmarkIds)
                 IN /\ Len(new) > Len(old)
                    /\ SubSeq(new, 1, Len(old)) = old
                    /\ Range(SubSeq(new, Len(old) + 1, Len(new)))
                           = Doomed(calls[s].bm, calls[s].id)
         ]_vars

\* a second delete appended the ids of a folder of entries that are not
\* local to a ledger that held the id of a local entry
C10_Witness ==
    /\ ev.op = "ledgerWritten"
    /\ hist.sets = 1
    /\ Ledger = <<"a", "f", "b">>
    /\ \A b \in Range(calls[ev.slot].bm) : b.id \in {"f", "b"} => ~b.isLocal

----------------------------------------------------------------------------
(* C11 *)

\* C11: entries that are not local are never written back: whatever step
\* changes the value stored under "bookmarks" (the save effect after a
\* load, a setBookmarks, an add or a delete, and the writes of lines 204
\* and 245), the value it stores holds only entries with isLocal true.
C11_OnlyLocalWritten ==
    [][storage'.bookmarks # storage.bookmarks
         => /\ IsArray(storage'.bookmarks)
            /\ \A e \in Range(storage'.bookmarks.val) : e.isLocal = TRUE]_vars

\* an add or a delete has just written "bookmarks" while the sequence in
\* memory held an entry that is not local next to local ones
C11_Witness ==
    /\ ev.op \in {"addCommitted", "deleteCommitted"}
    /\ \E e \in Range(bookmarks) : ~e.isLocal
    /\ storage.bookmarks.val # <<>>
    /\ Len(storage.bookmarks.val) < Len(bookmarks)


----------------------------------------------------------------------------
(* C12 *)

\* C12: once an add that succeeded or a delete that found its target has
\* completed and no other call is pending, the value stored under
\* "bookmarks" is the sequence in memory restricted to its entries with
\* isLocal true, in the same order; and the entry of an add that has just
\* completed is in it with isLocal true, whatever isLocal the caller passed.
C12_StoreMirrorsLocal ==
    (ev.op \in {"addDone", "deleteDone"} /\ InFlight = {})
        => /\ IsArray(storage.bookmarks)
           /\ storage.bookmarks.val
                  = SelectSeq(bookmarks, LAMBDA e : e.isLocal = TRUE)
           /\ ev.op = "addDone"
                  => \E e \in Range(storage.bookmarks.val) :
                         e.id = ev.id /\ e.isLocal = TRUE


----------------------------------------------------------------------------
(* Startup: the provider mounts on a store that a previous session left,   *)
(* and calls are made before and after the load of lines 29-37 resolves.   *)

LoadCalls == 2

\* a new call may start whether or not the startup load has resolved
MayStartEarly(most, open) ==
    /\ hist.n < most
    /\ Cardinality(InFlight) < open

\* what getFromStorage('bookmarks') finds at startup: nothing, a value that
\* is not an array, or an array of local entries a previous session wrote
LoadStores ==
    {Missing, Junk, Arr(<<>>),
     Arr(<<Bookmark("f", "FOLDER", Null, FALSE, TRUE, NoImage)>>),
     Arr(<<Bookmark("f", "FOLDER", Null, FALSE, TRUE, NoImage),
           Bookmark("a", "BOOKMARK", "f", FALSE, TRUE, NoImage)>>)}

LoadInputs ==
    {Bookmark("b", type, parentId, FALSE, FALSE, NoImage) :
        type \in Types, parentId \in {Null, "f"}}

\* lists a consumer passes to setBookmarks: local entries with small or
\* with large images
LoadSetInputs ==
    {<<Bookmark("a", "BOOKMARK", Null, FALSE, TRUE, Image("png", 40000))>>,
     <<Bookmark("a", "BOOKMARK", Null, FALSE, TRUE, Image("png", 4 * 1024 * 1024)),
       Bookmark("f", "FOLDER", Null, FALSE, TRUE, Image("png", 4 * 1024 * 1024))>>}

InitLoad ==
    \E v \in LoadStores :
        InitWith(<<>>, [bookmarks |-> v, deletedBookmarkIds |-> Missing],
                 "pending")

NextLoad ==
    \/ LoadResume
    \/ MayStartEarly(LoadCalls, 1) /\ \E l \in LoadSetInputs : SetBookmarks(l)
    \/ MayStartEarly(LoadCalls, 1) /\ \E b \in LoadInputs : AddCall(b)
    \/ \E s \in Slots, o \in CodecOutcomes : AddResume(s, o)
    \/ \E s \in Slots : AddFinish(s)

SpecLoad == InitLoad /\ [][NextLoad]_vars

----------------------------------------------------------------------------
(* C13 *)

\* C13: at startup the sequence in memory is empty; when the value stored
\* under "bookmarks" is missing or is not an array, the load leaves the
\* sequence in memory and the store as they are and surfaces no error, so
\* that with no call made meanwhile the sequence is empty and the store is
\* untouched once the load has completed; when the value is an array, the
\* load makes it the sequence in memory.
C13_StartupLoad ==
    /\ [](load.pc = "pending" /\ hist.n = 0 => bookmarks = <<>>)
    /\ [][LoadResume =>
             /\ ev'.toast = "none"
             /\ IF load.stored.kind = "array"
                THEN bookmarks' = load.stored.val
                ELSE bookmarks' = bookmarks /\ storage' = storage
         ]_vars
    /\ []((load.pc = "done" /\ load.stored.kind # "array" /\ hist.n = 0)
            => /\ bookmarks = <<>>
               /\ storage.bookmarks = load.stored)

\* the load has just resolved with a value that is not an array, before
\* any call was made
C13_Witness ==
    /\ ev.op = "loadDone"
    /\ load.pc = "done"
    /\ load.stored.kind = "junk"
    /\ hist.n = 0
    /\ bookmarks = <<>>
    /\ storage.bookmarks = Junk


----------------------------------------------------------------------------
(* C14 *)

\* C14: in every state reached by the startup load, addBookmark and
\* setBookmarks, the serialized size of the entries stored under
\* "bookmarks" is at most 5 MiB.
C14_StoredWithinCeiling ==
    IsArray(storage.bookmarks)
        => JsonLenList(storage.bookmarks.val) <= TOTAL_LIMIT


----------------------------------------------------------------------------
(* C15 *)

\* C15 as stated: after an add that the aggregate check aborted, the
\* sequence in memory contains the new entry.
C15_AbortedAddStaysInMemory ==
    ev.op = "addAggregateRejected" => ev.id \in IdsOf(bookmarks)

\* C15: addBookmark appends the processed entry to a copy of the sequence
\* (line 187) and calls setBookmarks only after the aggregate check (line
\* 202): the step that aborts an add on the aggregate check leaves the
\* sequence in memory as it was, and the new entry is not in it.
C15_AbortedAddLeavesMemory ==
    /\ [](ev.op = "addAggregateRejected" => ev.id \notin IdsOf(bookmarks))
    /\ [][ev'.op = "addAggregateRejected" => bookmarks' = bookmarks]_vars

\* the aggregate check has just aborted the add of an entry with a GIF,
\* made while another entry was in memory
C15_Witness ==
    /\ ev.op = "addAggregateRejected"
    /\ ev.arg.customImage.fmt = "gif"
    /\ Len(bookmarks) = 1
    /\ bookmarks[1].id # ev.id


----------------------------------------------------------------------------
(* C16 *)

\* prepareBookmarkForStorage asks for the compression of b's image and the
\* image comes back from no encoder: atob throws, the decoded data is over
\* the guard, the image fails to load, or the onload callback throws
CompressionFails(b, o) ==
    /\ Compresses(b)
    /\ ~Skipped(b.customImage)
    /\ GuardRejects(b.customImage) \/ o.kind # "onload"

\* C16: when the compression of an image of more than 50,000 characters
\* fails during addBookmark, the add still goes on to its aggregate check,
\* a warning is shown, and the entry the add stores keeps the original
\* image when its type is not BOOKMARK and has no image when it is.
C16_FailedCompressionFallback ==
    [][\A s \in Slots, o \in CodecOutcomes :
          (/\ calls[s].op = "add"
           /\ calls[s].pc = "prepare"
           /\ CompressionFails(calls[s].arg, o)
           /\ AddResume(s, o) \/ AddHang(s, o))
          => /\ ev'.op \in {"addCommitted", "addAggregateRejected"}
             /\ ev'.toast \in {"imageWarning", "imageWarning,totalTooLarge"}
             /\ ev'.op = "addCommitted" =>
                   calls'[s].new.customImage =
                       IF calls[s].arg.type = "BOOKMARK" THEN NoImage
                       ELSE calls[s].arg.customImage
      ]_vars


----------------------------------------------------------------------------
(* compressImageData called on its own, on images around its thresholds *)

\* the length of the base64 text (without padding) of n bytes
Base64Of(n) == (4 * n + 2) \div 3

\* payload lengths: over the inline threshold; a GIF data URI one character
\* under MAX_BOOKMARK_SIZE and exactly at it; decoded lengths just under
\* the guard, at it, just over it, and at 4 MiB
CompressPayloads ==
    {60000, MAX_BOOKMARK_SIZE - 23, MAX_BOOKMARK_SIZE - 22,
     Base64Of(DECODE_LIMIT - 3), Base64Of(DECODE_LIMIT),
     Base64Of(DECODE_LIMIT + 1), Base64Of(4 * 1024 * 1024)}

CompressInputs ==
    {Image(fmt, n) : fmt \in {"url", "gif", "png", "webp"},
                     n \in CompressPayloads}

\* lines 84-149: one call of compressImageData(img) and how it ends
CompressCall(img, outcome) ==
    /\ comp' = [input |-> img, outcome |-> outcome.kind,
                settled |-> CompressSettles(img, outcome),
                output |-> IF CompressSettles(img, outcome) = "resolved"
                           THEN CompressImageData(img, outcome) ELSE NoImage,
                codec |-> ReachesCodec(img, outcome)]
    /\ ev' = Event("compress", 0, Null, "none", NoEntry)
    /\ UNCHANGED <<bookmarks, storage, calls, load, view, nest, hist, uiVars>>

NextCompress ==
    \E img \in CompressInputs, o \in CodecOutcomes : CompressCall(img, o)

SpecCompress == InitWith(<<>>, EmptyStore, "done") /\ [][NextCompress]_vars

----------------------------------------------------------------------------
(* C17 *)

\* C17: a call of compressImageData on data it does not skip returns its
\* input unchanged, without handing it to the image codec, whenever the
\* decoded length is over 3 MiB (4 MiB for one); data that decodes to
\* exactly 3 MiB passes the guard and reaches the codec.
C17_DecodeGuard ==
    (comp.settled # "none" /\ ~Skipped(comp.input))
        => /\ DecodedLen(comp.input) > 3 * 1024 * 1024
                => /\ comp.settled = "resolved"
                   /\ comp.output = comp.input
                   /\ ~comp.codec
           /\ (DecodedLen(comp.input) = 3 * 1024 * 1024
                   /\ comp.outcome # "atobThrows")
                => /\ comp.codec
                   /\ comp.outcome = "onload" => comp.output # comp.input

\* a PNG that decodes to 4 MiB and that the codec could have re-encoded
\* has come back unchanged
C17_Witness ==
    /\ comp.input.fmt = "png"
    /\ DecodedLen(comp.input) = 4 * 1024 * 1024
    /\ comp.outcome = "onload"
    /\ comp.settled = "resolved"
    /\ comp.output = comp.input

----------------------------------------------------------------------------
(* C18 *)

\* C18: every call of compressImageData completes and none rejects, and a
\* call whose decoding, loading or encoding fails (atob throws, the image
\* fails to load, the canvas or the encoder throws in the onload callback)
\* completes with its input unchanged.
C18_CompressAlwaysResolves ==
    comp.settled # "none"
        => /\ comp.settled = "resolved"
           /\ comp.outcome \in {"atobThrows", "onerror", "onloadThrows"}
                  => comp.output = comp.input


----------------------------------------------------------------------------
(* C19 *)

\* C19: an entry whose addBookmark completed is not lost to the startup
\* load: whatever the order of the load and of an add called before the
\* load resolves, once both have completed (and setBookmarks was not
\* called) the added entry is in the sequence in memory and in the value
\* stored under "bookmarks".
C19_AddSurvivesLoad ==
    (load.pc = "done" /\ InFlight = {} /\ hist.sets = 0)
        => \A e \in Range(hist.added) :
               /\ e \in Range(bookmarks)
               /\ IsArray(storage.bookmarks)
               /\ e \in Range(storage.bookmarks.val)


----------------------------------------------------------------------------
(* C20 *)

\* C20: deleteBookmark removes only its target and, for a FOLDER, the
\* entries nested in it: the sequence in memory after the delete is the
\* sequence before it without those entries, the others unmodified and in
\* the same order; when the target is a BOOKMARK exactly one entry is
\* removed, even if other entries name it as their parentId.
C20_DeleteFrame ==
    ev.op = "deleteCommitted"
        => LET before == calls[ev.slot].bm
               gone == Doomed(before, ev.id)
           IN /\ bookmarks = SelectSeq(before, LAMBDA e : e.id \notin gone)
              /\ Find(before, ev.id).type = "BOOKMARK"
                    => /\ Len(bookmarks) = Len(before) - 1
                       /\ \A e \in Range(before) :
                             e.id # ev.id => e \in Range(bookmarks)

\* a BOOKMARK that two other entries name as their parentId has just been
\* deleted, and both are still in the sequence
C20_Witness ==
    /\ ev.op = "deleteCommitted"
    /\ Find(calls[ev.slot].bm, ev.id).type = "BOOKMARK"
    /\ Len(calls[ev.slot].bm) = 3
    /\ Len(bookmarks) = 2
    /\ \A e \in Range(bookmarks) : e.parentId = ev.id


----------------------------------------------------------------------------
(* C21 *)

\* C21: the ids one deleteBookmark call appends to "deletedBookmarkIds"
\* (its itemsToDelete) are pairwise distinct, whatever the parentId graph.
C21_AppendedIdsDistinct ==
    \A s \in Slots :
        calls[s].op = "delete"
            => \A i, j \in 1..Len(calls[s].items) :
                   i # j => calls[s].items[i] # calls[s].items[j]


----------------------------------------------------------------------------
(* TodoItem (todo.item.tsx) under Todos (todos.tsx).  `todo` holds the     *)
(* state cells isDeleting and countdown, whether the timeout of the effect *)
(* of lines 35-47 is pending, and history: the number of delete requests   *)
(* (clicks on the delete button), the number of times deleteTodo was       *)
(* invoked and of timer ticks since the last request, the countdown value  *)
(* at which undo was pressed for it (-1: not pressed), the parent renders. *)
(* A commit and the effect run that follows it are one step.               *)

\* number of clicks on the delete button in one run
MaxRequests == 2
\* number of renders of Todos that are not caused by the item in one run
MaxRenders == 2

\* the cleanup without clearTimeout
TodoCleanupKeepsTimer(t) == t

\* line 46: the cleanup of the effect, `() => clearTimeout(timer)`
TodoCleanup(t) == [t EXCEPT !.timer = FALSE]

\* lines 38-44: the body of the effect
TodoEffect(t) ==
    IF t.isDeleting /\ t.countdown > 0 THEN [t EXCEPT !.timer = TRUE]
    ELSE IF t.isDeleting /\ t.countdown = 0
    THEN [t EXCEPT !.invoked = @ + 1, !.removing = TRUE]
    ELSE t

\* a render in which one of the dependencies of line 47 has changed: the
\* cleanup of the previous run, then the effect
TodoCommit(t) == TodoEffect(TodoCleanup(t))

\* todos.tsx lines 21-28: Todos renders the item
TodoMount ==
    /\ ~todo.mounted /\ ~todo.removed
    /\ todo' = TodoCommit([todo EXCEPT !.mounted = TRUE])
    /\ UNCHANGED <<bookmarkVars, modal, pet>>

\* lines 49-53: handleDelete, the button of line 173 (shown while the item
\* is not being deleted)
TodoHandleDelete ==
    /\ todo.mounted /\ ~todo.isDeleting
    /\ todo.req < MaxRequests
    /\ todo' = TodoCommit([todo EXCEPT !.isDeleting = TRUE, !.countdown = 5,
                                       !.req = @ + 1, !.invoked = 0,
                                       !.ticks = 0, !.undoneAt = -1])
    /\ UNCHANGED <<bookmarkVars, modal, pet>>

\* lines 39-41: the timeout fires, `setCountdown(countdown - 1)`
TodoTimerFires ==
    /\ todo.mounted /\ todo.timer
    /\ todo' = TodoCommit([todo EXCEPT !.countdown = @ - 1, !.ticks = @ + 1])
    /\ UNCHANGED <<bookmarkVars, modal, pet>>

\* lines 60-63: handleUndo, the button of line 128 (shown while the item is
\* being deleted)
TodoHandleUndo ==
    /\ todo.mounted /\ todo.isDeleting
    /\ todo' = TodoCommit([todo EXCEPT !.isDeleting = FALSE, !.countdown = 5,
                                       !.undoneAt = todo.countdown])
    /\ UNCHANGED <<bookmarkVars, modal, pet>>

\* todos.tsx line 25: Todos renders again, for a reason of its own, and
\* passes a new `() => removeTodo(todo.id)`: the dependency deleteTodo of
\* line 47 has changed
TodoParentRender ==
    /\ todo.mounted
    /\ todo.renders < MaxRenders
    /\ todo' = TodoCommit([todo EXCEPT !.renders = @ + 1])
    /\ UNCHANGED <<bookmarkVars, modal, pet>>

\* removeTodo(todo.id) has taken the todo out of `todos`: Todos renders
\* without the item, which unmounts (the cleanup runs)
TodoRemoved ==
    /\ todo.mounted /\ todo.removing
    /\ todo' = TodoCleanup([todo EXCEPT !.mounted = FALSE, !.removed = TRUE])
    /\ UNCHANGED <<bookmarkVars, modal, pet>>

NextTodo ==
    \/ TodoMount
    \/ TodoHandleDelete
    \/ TodoTimerFires
    \/ TodoHandleUndo
    \/ TodoParentRender
    \/ TodoRemoved

\* a pending timeout fires
SpecTodo ==
    /\ InitWith(<<>>, EmptyStore, "done")
    /\ [][NextTodo]_vars
    /\ WF_vars(TodoTimerFires)

----------------------------------------------------------------------------
(* C22 *)

\* C22: one delete request (one click on the delete button) makes TodoItem
\* invoke deleteTodo(todo.id) at most once, also when Todos renders again
\* and passes a new deleteTodo while the countdown is running or is at 0.
C22_DeleteInvokedOnce == todo.invoked <= 1

----------------------------------------------------------------------------
(* C23 *)

\* C23: deleteTodo is invoked only while isDeleting is true and after the
\* countdown went from 5 to 0 in five steps of one; undo pressed before the
\* countdown is at 0 cancels the pending timer and puts the countdown back
\* at 5, and deleteTodo is not invoked for that request; without undo the
\* countdown reaches 0 and deleteTodo is invoked (unless the item is
\* unmounted meanwhile by the removal an earlier request asked for).
C23_CountdownThenDelete ==
    /\ [][todo'.invoked > todo.invoked
            => todo'.isDeleting /\ todo'.countdown = 0 /\ todo'.ticks = 5]_vars
    /\ [][TodoTimerFires => todo'.countdown = todo.countdown - 1]_vars
    /\ [][(TodoHandleUndo /\ todo.countdown > 0)
            => ~todo'.timer /\ todo'.countdown = 5 /\ todo'.invoked = 0]_vars
    /\ [](todo.undoneAt > 0
            => todo.invoked = 0 /\ ~todo.timer /\ todo.countdown = 5)
    /\ (todo.mounted /\ todo.isDeleting)
            ~> (~todo.isDeleting \/ todo.invoked >= 1 \/ ~todo.mounted)

\* undo was pressed at 2 on the second request, after Todos had rendered
\* again during the countdown, and nothing was deleted
C23_Witness ==
    /\ todo.mounted
    /\ todo.req = 2
    /\ todo.undoneAt = 2
    /\ todo.renders >= 1
    /\ todo.invoked = 0
    /\ todo.countdown = 5
    /\ ~todo.timer


----------------------------------------------------------------------------
(* UpdateReleaseNotesModal.  `modal` holds the props isOpen and            *)
(* counterValue (isNull: the prop is null), the state cell counter,        *)
(* whether the interval of the effect of lines 109-125 is running, and     *)
(* history: the counterValue the effect last ran with (openedNull,         *)
(* openedWith), the interval ticks since then, the prop changes so far.    *)

\* largest counterValue the parent passes
MaxCounter == 3
\* number of changes of the props in one run
MaxPropChanges == 3

\* the values of the prop counterValue: null, or a number of seconds
CounterValues ==
    {[isNull |-> TRUE, n |-> 0]} \cup {[isNull |-> FALSE, n |-> k] : k \in 0..MaxCounter}

\* the effect without the setCounter(0) of line 123
ModalEffectKeepsCounter(m) ==
    IF m.isOpen /\ ~m.isNull
    THEN [m EXCEPT !.counter = m.counterValue, !.interval = TRUE,
                   !.openedNull = FALSE, !.openedWith = m.counterValue,
                   !.ticks = 0]
    ELSE [m EXCEPT !.interval = FALSE, !.openedNull = m.isNull, !.ticks = 0]

\* lines 109-125: the effect, run when isOpen has changed, after the
\* cleanup of its previous run (clearInterval, line 121)
ModalEffect(m) ==
    IF m.isOpen /\ ~m.isNull
    THEN [m EXCEPT !.counter = m.counterValue, !.interval = TRUE,
                   !.openedNull = FALSE, !.openedWith = m.counterValue,
                   !.ticks = 0]
    ELSE [m EXCEPT !.counter = 0, !.interval = FALSE,
                   !.openedNull = m.isNull, !.ticks = 0]

\* line 310: disabled={counter > 0}
ModalDisabled(m) == m.counter > 0

\* lines 102-107: the modal mounts with its first props, counter is 0
ModalMount(isOpen, v) ==
    /\ ~modal.mounted
    /\ modal' = ModalEffect([modal EXCEPT !.mounted = TRUE, !.isOpen = isOpen,
                                          !.isNull = v.isNull,
                                          !.counterValue = v.n])
    /\ UNCHANGED <<bookmarkVars, todo, pet>>

\* the parent opens or closes the modal, and passes a counterValue: isOpen,
\* the one dependency of the effect (line 125), has changed
ModalSetOpen(isOpen, v) ==
    /\ modal.mounted
    /\ modal.changes < MaxPropChanges
    /\ isOpen # modal.isOpen
    /\ modal' = ModalEffect([modal EXCEPT !.isOpen = isOpen,
                                          !.isNull = v.isNull,
                                          !.counterValue = v.n,
                                          !.changes = @ + 1])
    /\ UNCHANGED <<bookmarkVars, todo, pet>>

\* the parent passes another counterValue and the same isOpen: the effect
\* does not run
ModalSetCounterValue(v) ==
    /\ modal.mounted
    /\ modal.changes < MaxPropChanges
    /\ <<v.isNull, v.n>> # <<modal.isNull, modal.counterValue>>
    /\ modal' = [modal EXCEPT !.isNull = v.isNull, !.counterValue = v.n,
                              !.changes = @ + 1]
    /\ UNCHANGED <<bookmarkVars, todo, pet>>

\* lines 111-119: the interval ticks
ModalTick ==
    /\ modal.mounted /\ modal.interval
    /\ modal' = [modal EXCEPT
                    !.counter = IF modal.counter <= 1 THEN 0 ELSE @ - 1,
                    !.interval = ~(modal.counter <= 1),
                    !.ticks = @ + 1]
    /\ UNCHANGED <<bookmarkVars, todo, pet>>

NextModal ==
    \/ \E o \in BOOLEAN, v \in CounterValues : ModalMount(o, v)
    \/ \E o \in BOOLEAN, v \in CounterValues : ModalSetOpen(o, v)
    \/ \E v \in CounterValues : ModalSetCounterValue(v)
    \/ ModalTick

SpecModal == InitWith(<<>>, EmptyStore, "done") /\ [][NextModal]_vars

----------------------------------------------------------------------------
(* C24 *)

ModalMax(a, b) == IF a >= b THEN a ELSE b

\* what C24 says of the counter, `closedOrNull` being the condition under
\* which it is 0 and the button enabled, and n the value it started from
ModalCounterRule(closedOrNull) ==
    modal.mounted
        => /\ modal.counter >= 0
           /\ ModalDisabled(modal) <=> modal.counter > 0
           /\ closedOrNull => modal.counter = 0 /\ ~ModalDisabled(modal)
           /\ (modal.isOpen /\ ~modal.openedNull /\ modal.openedWith > 0)
                 => /\ modal.counter = ModalMax(modal.openedWith - modal.ticks, 0)
                    /\ modal.ticks <= modal.openedWith
                    /\ modal.ticks = modal.openedWith => ~modal.interval

\* C24 as stated: the counter is never negative and the button is disabled
\* exactly while it is above 0; opened with counterValue n > 0 it starts at
\* n, loses one per tick, is 0 after n ticks and stays 0, the interval
\* stopped; while the modal is closed or counterValue is null it is 0.
C24_CounterFollowsProps ==
    ModalCounterRule(~modal.isOpen \/ modal.isNull)

\* C24: the same, the counter being 0 while the modal is closed or while
\* it is open and was opened with a null counterValue.
C24_CounterFollowsOpening ==
    ModalCounterRule(~modal.isOpen \/ modal.openedNull)

\* opened with counterValue 3, the modal has seen three ticks: the counter
\* is 0, the interval has stopped and the button is enabled
C24_Witness ==
    /\ modal.mounted /\ modal.isOpen
    /\ ~modal.openedNull /\ modal.openedWith = 3
    /\ modal.ticks = 3
    /\ modal.counter = 0
    /\ ~modal.interval
    /\ ~ModalDisabled(modal)


----------------------------------------------------------------------------
(* useBasePetLogic.  `pet` holds the props it reads (dim: the width of the *)
(* container and the PetDimensions), the state cells position, direction,  *)
(* action, behaviorState, targetX (-1: null), isMovingToTarget and         *)
(* collectibles (those not collected yet), the timeouts that are pending,  *)
(* and history: the clicks so far, whether physicsUpdate has run, and the  *)
(* function that computed the position last.  x is in pixels, y2 is y in   *)
(* half pixels (movePet and applyGravity move y by 0.5 and 1.5).           *)
(* actionTimer and Math.random() are choices of each tick.                 *)

\* number of clicks on the container in one run
MaxClicks == 2

\* line 223: useState<Position>({ x: 30, y: 0 })
InitialX == 30

\* the container and the pet: offsetWidth (0: not laid out, line 240 takes
\* 300), size, maxHeight, walkSpeed, runSpeed in pixels, climbSpeed in
\* half pixels.  The first container is narrower than size + 20, so its
\* maxX lies left of its minX.
PetDims ==
    {[width |-> 50, size |-> 40, maxHeight |-> 2, walkSpeed |-> 10,
      runSpeed |-> 20, climbSpeed2 |-> 3],
     [width |-> 120, size |-> 40, maxHeight |-> 2, walkSpeed |-> 10,
      runSpeed |-> 20, climbSpeed2 |-> 3],
     [width |-> 0, size |-> 250, maxHeight |-> 1, walkSpeed |-> 10,
      runSpeed |-> 20, climbSpeed2 |-> 1]}

\* clientX - rect.left of a click
ClickXs == {0, 50, 300}

PetMin(a, b) == IF a <= b THEN a ELSE b
PetMax(a, b) == IF a >= b THEN a ELSE b
PetAbs(a) == IF a >= 0 THEN a ELSE -a

\* lines 236-244; maxY is in half pixels here
GetMovementBounds(d) ==
    [minX |-> 10,
     maxX |-> (IF d.width # 0 THEN d.width ELSE 300) - d.size - 10,
     minY |-> 0,
     maxY |-> 2 * d.maxHeight]

\* lines 246-249
IsNearWall(p) ==
    LET bounds == GetMovementBounds(p.dim)
    IN p.x <= bounds.minX + 5 \/ p.x >= bounds.maxX - 5

\* lines 251-253
GetCurrentSpeed(p) ==
    IF p.action = "run" THEN p.dim.runSpeed ELSE p.dim.walkSpeed

\* lines 322-345: the index of the nearest collectible that lies on the
\* ground (0: none); the first one wins a tie
FindNearestCollectible(p) ==
    LET avail == {i \in 1..Len(p.collectibles) : ~p.collectibles[i].dropping}
    IN IF avail = {} THEN 0
       ELSE CHOOSE i \in avail :
              \A j \in avail :
                 \/ PetAbs(p.x - p.collectibles[i].x) < PetAbs(p.x - p.collectibles[j].x)
                 \/ /\ PetAbs(p.x - p.collectibles[i].x) = PetAbs(p.x - p.collectibles[j].x)
                    /\ i <= j

\* movePet that does not turn back at the walls
MovePetThroughWalls(p) ==
    [x |-> p.x + p.direction * GetCurrentSpeed(p),
     y2 |-> IF p.y2 > 0 THEN PetMax(0, p.y2 - 1) ELSE 0,
     direction |-> p.direction]

\* lines 542-562: the new position and direction
MovePet(p) ==
    LET bounds == GetMovementBounds(p.dim)
        newX == p.x + p.direction * GetCurrentSpeed(p)
        newY == IF p.y2 > 0 THEN PetMax(0, p.y2 - 1) ELSE 0
    IN IF newX >= bounds.maxX
       THEN [x |-> bounds.maxX, y2 |-> newY, direction |-> -1]
       ELSE IF newX <= bounds.minX
       THEN [x |-> bounds.minX, y2 |-> newY, direction |-> 1]
       ELSE [x |-> newX, y2 |-> newY, direction |-> p.direction]

\* line 573: distance <= speed, the target is reached
ReachesTarget(p) ==
    /\ p.targetX # -1
    /\ PetAbs(p.targetX - p.x)
           <= (IF p.action = "run" THEN p.dim.runSpeed ELSE p.dim.walkSpeed)

\* lines 564-601: the new position and direction
MoveToTarget(p) ==
    LET bounds == GetMovementBounds(p.dim)
        delta == p.targetX - p.x
        speed == IF p.action = "run" THEN p.dim.runSpeed ELSE p.dim.walkSpeed
        newDirection == IF delta > 0 THEN 1 ELSE -1
    IN IF p.targetX = -1
       THEN [x |-> p.x, y2 |-> p.y2, direction |-> p.direction]
       ELSE IF ReachesTarget(p)
       THEN [x |-> p.targetX, y2 |-> p.y2, direction |-> p.direction]
       ELSE [x |-> PetMax(bounds.minX,
                          PetMin(bounds.maxX, p.x + newDirection * speed)),
             y2 |-> p.y2, direction |-> newDirection]

\* lines 617-631
ClimbWall(p) ==
    LET bounds == GetMovementBounds(p.dim)
        newY == p.y2 + p.dim.climbSpeed2
    IN [x |-> IF p.direction = 1 THEN bounds.maxX ELSE bounds.minX,
        y2 |-> IF newY >= bounds.maxY THEN bounds.maxY ELSE newY,
        direction |-> p.direction]

\* lines 633-638
ApplyGravity(p) ==
    [x |-> p.x, y2 |-> IF p.y2 > 0 THEN PetMax(0, p.y2 - 3) ELSE p.y2,
     direction |-> p.direction]

\* lines 645-660: the function the updater of setPosition takes
PositionBranch(p) ==
    IF p.isMovingToTarget /\ p.action \in {"walk", "run"} THEN "moveToTarget"
    ELSE IF p.action \in {"walk", "run"} THEN "movePet"
    ELSE IF p.action = "climb" /\ p.behaviorState = "CLIMBING" THEN "climbWall"
    ELSE IF p.behaviorState # "CLIMBING" /\ p.y2 > 0 THEN "applyGravity"
    ELSE "none"

\* lines 644-661: the position and direction after the tick
NewPosition(p) ==
    CASE PositionBranch(p) = "moveToTarget" -> MoveToTarget(p)
      [] PositionBranch(p) = "movePet"      -> MovePet(p)
      [] PositionBranch(p) = "climbWall"    -> ClimbWall(p)
      [] PositionBranch(p) = "applyGravity" -> ApplyGravity(p)
      [] OTHER -> [x |-> p.x, y2 |-> p.y2, direction |-> p.direction]


\* lines 391-396: a collectible on the ground within size / 1.5 of the pet
IsCollected(p, c) ==
    ~c.dropping /\ 3 * PetAbs(c.x - p.x) < 2 * p.dim.size

\* lines 370-418 and 345-368: the oldest dropping collectible lands when
\* `lands`; a collectible that is collected leaves the list (a collected
\* one is skipped everywhere until line 422 removes it)
UpdateCollectibles(p, lands) ==
    LET cs == p.collectibles
        dropping == {i \in 1..Len(cs) : cs[i].dropping}
        first == IF dropping = {} THEN 0
                 ELSE CHOOSE i \in dropping : \A j \in dropping : i <= j
        landed == [i \in 1..Len(cs) |->
                     IF lands /\ i = first
                     THEN [cs[i] EXCEPT !.dropping = FALSE] ELSE cs[i]]
        Stays(i) == ~IsCollected(p, cs[i])
        RECURSIVE Keep(_)
        Keep(i) == IF i > Len(cs) THEN <<>>
                   ELSE IF Stays(i) THEN <<landed[i]>> \o Keep(i + 1)
                   ELSE Keep(i + 1)
    IN Keep(1)

\* lines 428-501 (isHungry false, every animation present): what roamOrRest
\* writes; roll stands for its Math.random() draws
RoamOrRest(p, roll) ==
    IF p.behaviorState = "ROAMING"
    THEN IF IsNearWall(p) /\ roll = 0
         THEN [behaviorState |-> "CLIMBING", action |-> "climb"]
         ELSE [behaviorState |-> "RESTING",
               action |-> IF roll = 1 THEN "sit" ELSE "idle"]
    ELSE IF p.behaviorState = "CLIMBING"
    THEN [behaviorState |-> "RESTING", action |-> "stand"]
    ELSE [behaviorState |-> "ROAMING",
          action |-> IF roll = 0 THEN "run" ELSE "walk"]

\* lines 503-541: the cells after updateBehavior; timerUp is actionTimer <= 0
UpdateBehavior(p, timerUp, roll) ==
    LET nearest == FindNearestCollectible(p)
        cur == [behaviorState |-> p.behaviorState, action |-> p.action,
                targetX |-> p.targetX, isMovingToTarget |-> p.isMovingToTarget]
    IN IF nearest # 0
       THEN [behaviorState |-> "CHASING",
             action |-> IF p.behaviorState # "CHASING" THEN "run" ELSE p.action,
             targetX |-> p.collectibles[nearest].x,
             isMovingToTarget |-> TRUE]
       ELSE IF p.behaviorState = "CHASING"
       THEN [behaviorState |-> "RESTING", action |-> "idle",
             targetX |-> -1, isMovingToTarget |-> FALSE]
       ELSE IF ~p.isMovingToTarget /\ timerUp
       THEN [cur EXCEPT !.behaviorState = RoamOrRest(p, roll).behaviorState,
                        !.action = RoamOrRest(p, roll).action]
       ELSE cur

\* useBasePetLogic is called: lines 211-234
PetMount(d) ==
    /\ ~pet.mounted
    /\ pet' = [PetIdle EXCEPT !.mounted = TRUE, !.dim = d, !.x = InitialX]
    /\ UNCHANGED <<bookmarkVars, todo, modal>>

\* lines 273-320: handleClick
PetClick(clickX) ==
    /\ pet.mounted
    /\ pet.clicks < MaxClicks
    /\ LET bounds == GetMovementBounds(pet.dim)
           clampedX == PetMax(bounds.minX, PetMin(bounds.maxX, clickX))
           rests == pet.action \in {"sit", "idle"}
       IN pet' = [pet EXCEPT
                    !.collectibles = Append(@, [x |-> clampedX, dropping |-> TRUE]),
                    !.action = IF rests THEN "stand" ELSE "run",
                    !.behaviorState = IF rests THEN @ ELSE "CHASING",
                    !.chaseTimeout = IF rests THEN TRUE ELSE @,
                    !.clicks = @ + 1]
    /\ UNCHANGED <<bookmarkVars, todo, modal>>

\* lines 302-305: the timeout of handleClick, 300 ms later
PetChaseTimeout ==
    /\ pet.mounted
    /\ pet.chaseTimeout
    /\ pet' = [pet EXCEPT !.action = "run", !.behaviorState = "CHASING",
                          !.chaseTimeout = FALSE]
    /\ UNCHANGED <<bookmarkVars, todo, modal>>

\* lines 361-365: the timeout of handleCollectibleCollection, 500 ms later
PetResumeTimeout ==
    /\ pet.mounted
    /\ pet.resumeTimeout # "none"
    /\ pet' = [pet EXCEPT !.action = pet.resumeTimeout,
                          !.resumeTimeout = "none"]
    /\ UNCHANGED <<bookmarkVars, todo, modal>>

\* lines 640-661: one physicsUpdate and the render that follows it.  Every
\* function reads the cells of the render that made it.  updateBehavior
\* writes first; moveToTarget, which runs inside the updater of the
\* position, writes targetX and isMovingToTarget after it; the action is
\* written by updateBehavior, by handleCollectibleCollection ('stand') and
\* by moveToTarget ('idle') in an order the render decides, so any of the
\* written values may be the last.
PetTick(lands, timerUp, roll) ==
    /\ pet.mounted
    /\ LET ub == UpdateBehavior(pet, timerUp, roll)
           pos == NewPosition(pet)
           reached == PositionBranch(pet) = "moveToTarget" /\ ReachesTarget(pet)
           noNext == FindNearestCollectible(pet) = 0
           collects == \E i \in 1..Len(pet.collectibles) :
                          IsCollected(pet, pet.collectibles[i])
           idles == reached /\ (pet.behaviorState # "CHASING" \/ noNext)
           late == (IF collects THEN {"stand"} ELSE {})
                     \cup (IF idles THEN {"idle"} ELSE {})
           actions == IF late = {} THEN {ub.action}
                      ELSE IF collects THEN late \cup {ub.action} ELSE late
       IN \E a \in actions :
            pet' = [pet EXCEPT
                      !.x = pos.x, !.y2 = pos.y2, !.direction = pos.direction,
                      !.action = a,
                      !.behaviorState =
                          IF reached /\ pet.behaviorState = "CHASING" /\ noNext
                          THEN "RESTING" ELSE ub.behaviorState,
                      !.targetX = IF reached THEN -1 ELSE ub.targetX,
                      !.isMovingToTarget =
                          IF reached THEN FALSE ELSE ub.isMovingToTarget,
                      !.collectibles = UpdateCollectibles(pet, lands),
                      !.resumeTimeout =
                          IF collects
                          THEN (IF pet.behaviorState = "CHASING"
                                THEN "run" ELSE "walk")
                          ELSE @,
                      !.via = PositionBranch(pet)]
    /\ UNCHANGED <<bookmarkVars, todo, modal>>

\* the choices a tick can tell apart: a collectible lands only while one
\* is dropping, and updateBehavior reads actionTimer and roamOrRest draws a
\* number only on the path of lines 526-527
LandChoices ==
    IF \E i \in 1..Len(pet.collectibles) : pet.collectibles[i].dropping
    THEN BOOLEAN ELSE {FALSE}

ReadsTimer ==
    /\ FindNearestCollectible(pet) = 0
    /\ pet.behaviorState # "CHASING"
    /\ ~pet.isMovingToTarget

TimerChoices == IF ReadsTimer THEN BOOLEAN ELSE {FALSE}

RollChoices(timerUp) ==
    IF ReadsTimer /\ timerUp /\ pet.behaviorState # "CLIMBING"
    THEN 0..2 ELSE {0}

TickChoices ==
    {c \in LandChoices \X TimerChoices \X (0..2) : c[3] \in RollChoices(c[2])}

NextPet ==
    \/ \E d \in PetDims : PetMount(d)
    \/ \E clickX \in ClickXs : PetClick(clickX)
    \/ PetChaseTimeout
    \/ PetResumeTimeout
    \/ \E c \in TickChoices : PetTick(c[1], c[2], c[3])

SpecPet == InitWith(<<>>, EmptyStore, "done") /\ [][NextPet]_vars

\* the position lies within getMovementBounds
PetWithinBounds(p) ==
    LET bounds == GetMovementBounds(p.dim)
    IN /\ bounds.minX <= p.x /\ p.x <= bounds.maxX
       /\ bounds.minY <= p.y2 /\ p.y2 <= bounds.maxY

\* the pet's first position, x = 30, lies between the walls:
\* the container is at least size + 40 wide
PetFits(d) ==
    /\ GetMovementBounds(d).minX <= InitialX
    /\ InitialX <= GetMovementBounds(d).maxX

\* C25: for a container of fixed width, after every physicsUpdate tick and
\* under any sequence of clicks, the pet's position satisfies
\* minX <= x <= maxX and 0 <= y <= maxY, whichever of moveToTarget, movePet,
\* climbWall or applyGravity computed it.
C25_PositionWithinBounds ==
    (pet.mounted /\ pet.via # "mount") => PetWithinBounds(pet)

\* C25, the part that holds: in a container at least size + 40 wide (the
\* first position x = 30 lies between minX and maxX) the position is within
\* the bounds after every tick.
C25_PositionWithinBoundsWhenFits ==
    (pet.mounted /\ pet.via # "mount" /\ PetFits(pet.dim))
        => PetWithinBounds(pet)

\* a click far to the right was clamped, and moveToTarget has brought the
\* pet to the right wall
C25_Witness ==
    /\ pet.mounted /\ PetFits(pet.dim)
    /\ pet.clicks >= 1
    /\ pet.via = "moveToTarget"
    /\ pet.x = GetMovementBounds(pet.dim).maxX
    /\ pet.x # InitialX

====
